---- MODULE Spec2Model ----
(***************************************************************************)
(* The diagnostic workflow of cowork-triage: the stage functions of       *)
(* src/src/nodes, the two evidence stages, the graph of src/src/agent.py  *)
(* run by the graph engine in supersteps, the in-memory checkpointer, and *)
(* the callers that start, resume and abandon a session.                  *)
(*                                                                         *)
(* Texts are sequences of tokens, so that concatenation, prefixes and     *)
(* separators are what they are in the code.  An optional value is the    *)
(* empty sequence (absent / None) or a one-element sequence.              *)
(***************************************************************************)
EXTENDS Integers, Sequences, FiniteSets, TLC

\* ---------------------------------------------------------------- bounds
\* longest hypothesis list a generation output carries
MaxHyp == 2

\* ------------------------------------------------------- input alphabets
Nodes == {"intake", "classifier", "github_search", "rag_search",
          "diagnoser", "info_gatherer", "user_input", "resolution"}

\* the initial user message: empty, or some report text
Reports == {<<>>, <<"report">>}

\* what the intake generation call extracts (a missing field is <<>>)
IntakeOutputs == {[title |-> <<>>, error_message |-> <<>>],
                  [title |-> <<"title">>, error_message |-> <<"error">>]}

\* outputs of the classification call: a decode failure (no JSON, or a
\* confidence that is not a number), or a result with a confidence (in
\* hundredths; <<>> when the key is missing) and a missing_info list
ClassifierOutputs ==
    {[ok |-> FALSE, failure_type |-> "unknown", confidence |-> <<>>, missing_info |-> <<>>],
     [ok |-> TRUE, failure_type |-> "runtime", confidence |-> <<69>>, missing_info |-> <<"stack trace">>],
     [ok |-> TRUE, failure_type |-> "dependency", confidence |-> <<90>>, missing_info |-> <<>>]}

\* the same, with the confidences around the threshold, at and outside the
\* ends of the range, and missing
GeneratedConfidences ==
    {<<>>} \cup {<<c>> : c \in {-10, 0, 30, 69, 70, 71, 100, 150}}

AllClassifierOutputs ==
    ClassifierOutputs \cup
    [ok : {TRUE}, failure_type : {"runtime", "dependency"},
     confidence : GeneratedConfidences,
     missing_info : {<<>>, <<"stack trace">>}]

\* what the issue search and the library detection come back with; a failed
\* search is the empty list
GithubOutputs ==
    {[issues |-> <<>>,
      library_detection |-> [primary |-> "unknown", confidence |-> 0],
      github_confidence |-> 0],
     [issues |-> <<[number |-> 1, state |-> "closed"]>>,
      library_detection |-> [primary |-> "langgraph", confidence |-> 40],
      github_confidence |-> 30]}

\* the issue searches of one github_search: the repositories searched, the
\* queries built from the report, and the provider's answer (issue numbers by
\* rank) to each query in each repository
RepoLists ==
    {<<"langchain-ai/langchain">>,
     <<"langchain-ai/langgraph", "langchain-ai/langchain">>,
     <<"langchain-ai/langchain", "langchain-ai/langgraph",
       "langchain-ai/langsmith-sdk">>}

QueryLists == {<<>>, <<"title">>, <<"fallback">>, <<"title", "component">>}

ItemLists == {<<>>, <<1, 2, 3>>, <<2, 1>>, <<3, 4, 1>>}

Range(s) == {s[i] : i \in DOMAIN s}

\* arguments of compute_confidence_breakdown, in hundredths: a classification
\* (with or without a confidence, 150 being out of range), the issue-search
\* confidence, the library detection, and up to four knowledge results
BreakdownClassifications ==
    {<<>>} \cup {<<[confidence |-> c]>> : c \in {0, 50, 80, 100, 150}}

BreakdownGithubConfidences == {0, 60, 100}

BreakdownLibraryDetections ==
    {<<>>} \cup {<<[primary |-> "langgraph", confidence |-> c]>> : c \in {0, 40, 100}}

BreakdownRagResults ==
    {[i \in DOMAIN s |-> [solution |-> "known fix", similarity_score |-> s[i]]] :
        s \in UNION {[1..n -> {0, 50, 100}] : n \in 0..4}}

\* arguments of compute_github_confidence: the title of the report and up to
\* four issues (title, state, relevance score in tenths)
TicketTitles == {<<>>, <<"event", "loop">>, <<"event", "loop", "running">>}

ScoredIssues ==
    {[title |-> <<"event", "loop">>, state |-> "closed", relevance_score |-> 10],
     [title |-> <<"event", "closed">>, state |-> "open", relevance_score |-> 9],
     [title |-> <<"loop", "running", "twice">>, state |-> "closed", relevance_score |-> 8]}

\* what the similarity search comes back with; a failed search is <<>>
RagOutputs == {<<>>, <<[solution |-> "known fix", similarity_score |-> 75]>>}

\* likelihood values a generated hypothesis may carry
RawLikelihoods == {"high", "medium", "low"}

RECURSIVE SeqsUpTo(_, _)
SeqsUpTo(S, n) ==
    IF n = 0 THEN {<<>>}
    ELSE LET shorter == SeqsUpTo(S, n - 1)
         IN shorter \cup {Append(s, x) : s \in shorter, x \in S}

\* outputs of the hypothesis-generation call: a decode failure, or a list of
\* likelihoods (the description of a hypothesis is its position in the list)
DiagnoserOutputs ==
    {[ok |-> FALSE, likelihoods |-> <<>>]} \cup
    {[ok |-> TRUE, likelihoods |-> ls] : ls \in SeqsUpTo(RawLikelihoods, MaxHyp)}

\* the same, with up to four hypotheses and a likelihood outside the three
\* values of the prompt
AllDiagnoserOutputs ==
    DiagnoserOutputs \cup
    {[ok |-> TRUE, likelihoods |-> ls] :
        ls \in SeqsUpTo(RawLikelihoods \cup {"very high"}, 4)}

\* questions the question-generation call may produce
Questions == {<<"question 1">>, <<"question 2">>}

\* answers the user may give at a resume (the empty text included)
Answers == {<<>>, <<"answer">>}

\* outputs of the plan-generation call: a decode failure, or the order values
\* of the generated steps (0 stands for a step without an order key)
ResolutionOutputs ==
    {[ok |-> FALSE, orders |-> <<>>],
     [ok |-> TRUE, orders |-> <<>>],
     [ok |-> TRUE, orders |-> <<1, 2>>],
     [ok |-> TRUE, orders |-> <<0, 7>>]}

\* ------------------------------------------------------------ the state
\* DiagnosticState before any stage has written it: every key holds the
\* default the stage functions read with state.get(key, default)
EmptyReport == [raw_description |-> <<>>, title |-> <<>>,
                error_message |-> <<>>, additional_context |-> <<>>]

DiagnosticState ==
    [messages |-> <<>>,
     bug_report |-> EmptyReport,
     classification |-> <<>>,
     library_detection |-> <<>>,
     missing_info |-> <<>>,
     info_gathering_attempts |-> 0,
     related_issues |-> <<>>,
     rag_results |-> <<>>,
     hypotheses |-> <<>>,
     selected_hypothesis |-> <<>>,
     confidence_breakdown |-> <<>>,
     resolution_plan |-> <<>>,
     current_phase |-> "unset",
     needs_user_input |-> FALSE,
     user_question |-> <<>>]

\* the keys declared with a reducer (Annotated[list, operator.add])
AppendKeys == {"messages"}

\* (mutant) no reducer: the update's log replaces the session's log
Merge_NoReducer(st, upd) ==
    [k \in DOMAIN st |-> IF k \in DOMAIN upd THEN upd[k] ELSE st[k]]

\* The engine's merge of one partial update: a key of the schema that the
\* update carries is appended (reducer) or replaced; a key the update does
\* not carry keeps its value; a key outside the schema is dropped.
Merge(st, upd) ==
    [k \in DOMAIN st |->
        IF k \in DOMAIN upd
        THEN IF k \in AppendKeys THEN st[k] \o upd[k] ELSE upd[k]
        ELSE st[k]]

Msg(role, content) == [role |-> role, content |-> content]

MaxOf(S) == CHOOSE x \in S : \A y \in S : y <= x
MinOf(a, b) == IF a < b THEN a ELSE b

\* ------------------------------------------------------ stage functions
\* intake_node: the report is the content of the last user message
LastUserMessage(msgs) ==
    LET users == {i \in DOMAIN msgs : msgs[i].role = "user"}
    IN IF users = {} THEN <<>> ELSE msgs[MaxOf(users)].content

intake_node(st, out) ==
    LET user_message == LastUserMessage(st.messages)
        report == IF user_message = <<>>
                  THEN EmptyReport
                  ELSE [raw_description |-> user_message,
                        title |-> out.title,
                        error_message |-> out.error_message,
                        additional_context |-> <<>>]
    IN [bug_report |-> report,
        current_phase |-> "classification",
        missing_info |-> <<>>,
        info_gathering_attempts |-> 0,
        related_issues |-> <<>>,
        rag_results |-> <<>>,
        hypotheses |-> <<>>,
        resolution_plan |-> <<>>,
        needs_user_input |-> FALSE]

\* classifier_node: confidences are in hundredths
ConfidenceThreshold == 70
\* (mutant) the fallback carries the confidence of the threshold
FallbackConfidence_AsThreshold == ConfidenceThreshold

FallbackConfidence == 30
MissingConfidence == 50

\* (mutant) a confidence equal to the threshold still counts as low
classifier_node_ThresholdInclusive(st, out) ==
    LET classification ==
            IF out.ok
            THEN [failure_type |-> out.failure_type,
                  confidence |-> IF out.confidence = <<>>
                                 THEN MissingConfidence
                                 ELSE out.confidence[1],
                  reasoning |-> <<"reasoning">>]
            ELSE [failure_type |-> "unknown",
                  confidence |-> FallbackConfidence,
                  reasoning |-> <<"Failed to parse classification response">>]
        missing_info ==
            IF out.ok THEN out.missing_info
            ELSE <<"error message", "steps to reproduce">>
        next_phase ==
            IF missing_info # <<>> /\ classification.confidence <= ConfidenceThreshold
            THEN "gathering" ELSE "searching"
    IN [classification |-> <<classification>>,
        missing_info |-> missing_info,
        current_phase |-> next_phase]

classifier_node(st, out) ==
    LET classification ==
            IF out.ok
            THEN [failure_type |-> out.failure_type,
                  confidence |-> IF out.confidence = <<>>
                                 THEN MissingConfidence
                                 ELSE out.confidence[1],
                  reasoning |-> <<"reasoning">>]
            ELSE [failure_type |-> "unknown",
                  confidence |-> FallbackConfidence,
                  reasoning |-> <<"Failed to parse classification response">>]
        missing_info ==
            IF out.ok THEN out.missing_info
            ELSE <<"error message", "steps to reproduce">>
        next_phase ==
            IF missing_info # <<>> /\ classification.confidence < ConfidenceThreshold
            THEN "gathering" ELSE "searching"
    IN [classification |-> <<classification>>,
        missing_info |-> missing_info,
        current_phase |-> next_phase]

\* github_search_node: with no text at all in the report there is no query
\* and no library keyword, whatever the provider would return
ReportHasText(report) ==
    report.raw_description # <<>> \/ report.title # <<>>
    \/ report.error_message # <<>>

github_search_node(st, out) ==
    LET found == IF ReportHasText(st.bug_report) THEN out
                 ELSE [issues |-> <<>>,
                       library_detection |-> [primary |-> "unknown", confidence |-> 0],
                       github_confidence |-> 0]
    IN [related_issues |-> found.issues,
        library_detection |-> <<found.library_detection>>,
        github_confidence |-> found.github_confidence,
        current_phase |-> "searching"]

\* search_github_issues: the items of the provider's answer, at most
\* max_results of them (per_page), each scored by its rank: 1.0 - i * 0.1,
\* here in tenths.  A failed request is the empty answer.
search_github_issues(items, max_results) ==
    [i \in 1..MinOf(max_results, Len(items)) |->
        [number |-> items[i], relevance_score |-> 10 - (i - 1)]]

\* max_per_query
MaxPerQuery(query_type) ==
    IF query_type \in {"title", "error"} THEN 3 ELSE 2

\* (mutant) every issue returned is added
add_issue_Always(all_issues, issue, repo) ==
    Append(all_issues, [repo |-> repo, number |-> issue.number,
                        relevance_score |-> issue.relevance_score])

\* add_issue: seen_keys holds the key repo#number of every entry of all_issues
add_issue(all_issues, issue, repo) ==
    IF \E j \in DOMAIN all_issues :
            all_issues[j].repo = repo /\ all_issues[j].number = issue.number
    THEN all_issues
    ELSE Append(all_issues, [repo |-> repo, number |-> issue.number,
                             relevance_score |-> issue.relevance_score])

RECURSIVE AddIssues(_, _, _)
AddIssues(all_issues, issues, repo) ==
    IF issues = <<>> THEN all_issues
    ELSE AddIssues(add_issue(all_issues, Head(issues), repo), Tail(issues), repo)

\* for repo in repos_to_search: for query_type, query in queries: the k-th
\* search is the one of repository r and query q
RECURSIVE ExecuteSearches(_, _, _, _, _)
ExecuteSearches(all_issues, k, repos_to_search, queries, provider) ==
    IF k > Len(repos_to_search) * Len(queries) THEN all_issues
    ELSE LET r == ((k - 1) \div Len(queries)) + 1
             q == ((k - 1) % Len(queries)) + 1
             issues == search_github_issues(
                           provider[<<repos_to_search[r], queries[q]>>],
                           MaxPerQuery(queries[q]))
         IN ExecuteSearches(AddIssues(all_issues, issues, repos_to_search[r]),
                            k + 1, repos_to_search, queries, provider)

\* (mutant) the list is left in the order of the searches
SortByRelevance_Unsorted(issues) == issues

\* all_issues.sort(key=relevance_score, reverse=True): stable, largest first
RECURSIVE SortByRelevance(_)
SortByRelevance(issues) ==
    IF issues = <<>> THEN <<>>
    ELSE LET best == MaxOf({issues[i].relevance_score : i \in DOMAIN issues})
             first == CHOOSE i \in DOMAIN issues :
                        /\ issues[i].relevance_score = best
                        /\ \A j \in 1..(i - 1) : issues[j].relevance_score # best
         IN <<issues[first]>> \o
            SortByRelevance(SubSeq(issues, 1, first - 1) \o
                            SubSeq(issues, first + 1, Len(issues)))

\* all_issues[:8]
MaxRelatedIssues == 8

TopRelatedIssues(all_issues) ==
    LET sorted == SortByRelevance(all_issues)
    IN SubSeq(sorted, 1, MinOf(MaxRelatedIssues, Len(sorted)))

\* rag_search_node: the query is error_message, else title, else the raw
\* description; no query, no search
RagQuery(report) ==
    IF report.error_message # <<>> THEN report.error_message
    ELSE IF report.title # <<>> THEN report.title
    ELSE report.raw_description

rag_search_node(st, out) ==
    IF RagQuery(st.bug_report) = <<>>
    THEN [rag_results |-> <<>>, current_phase |-> "diagnosis"]
    ELSE [rag_results |-> out, current_phase |-> "diagnosis"]

\* diagnoser_node -------------------------------------------------------
\* likelihood_order.get(likelihood, 3)
LikelihoodOrder(l) ==
    IF l = "high" THEN 0 ELSE IF l = "medium" THEN 1
    ELSE IF l = "low" THEN 2 ELSE 3

HasOrder(k, h) == LikelihoodOrder(h.likelihood) = k

\* (mutant) the list is left in the order of the response
SortByLikelihood_Unsorted(hs) == hs

\* list.sort(key=...) is stable: within one key the input order is kept
SortByLikelihood(hs) ==
    SelectSeq(hs, LAMBDA h : HasOrder(0, h)) \o
    SelectSeq(hs, LAMBDA h : HasOrder(1, h)) \o
    SelectSeq(hs, LAMBDA h : HasOrder(2, h)) \o
    SelectSeq(hs, LAMBDA h : HasOrder(3, h))

\* (mutant) the fallback hypothesis is rated high
FallbackHypothesis_High ==
    [description |-> 0, likelihood |-> "high",
     evidence |-> <<"Parsing of diagnostic response failed">>]

FallbackHypothesis ==
    [description |-> 0, likelihood |-> "low",
     evidence |-> <<"Parsing of diagnostic response failed">>]

GeneratedHypotheses(out) ==
    IF out.ok
    THEN [i \in 1..Len(out.likelihoods) |->
            [description |-> i, likelihood |-> out.likelihoods[i],
             evidence |-> <<>>]]
    ELSE <<FallbackHypothesis>>

\* compute_confidence_breakdown.  Source scores are kept in 1/600 (six times
\* the hundredths of the inputs, so that the mean of up to three similarity
\* scores is exact); overall is in 1/60000.
ScoreScale == 2 * 3
WeightClassification == 30
\* (mutant) the issue-search score weighs as much as the classification
WeightGithub_AsClassification == WeightClassification

WeightGithub == 35
WeightRag == 20
WeightLibrary == 15
DefaultClassificationConfidence == 50
ExplainAbove == 300

RECURSIVE SumOf(_)
SumOf(xs) == IF xs = <<>> THEN 0 ELSE Head(xs) + SumOf(Tail(xs))

\* sort(key=score*weight, reverse=True): stable, largest first
RECURSIVE SortByContribution(_)
SortByContribution(cs) ==
    IF cs = <<>> THEN <<>>
    ELSE LET best == MaxOf({cs[i].score * cs[i].weight : i \in DOMAIN cs})
             first == CHOOSE i \in DOMAIN cs :
                        /\ cs[i].score * cs[i].weight = best
                        /\ \A j \in 1..(i - 1) : cs[j].score * cs[j].weight # best
         IN <<cs[first]>> \o
            SortByContribution(SubSeq(cs, 1, first - 1) \o
                               SubSeq(cs, first + 1, Len(cs)))

compute_confidence_breakdown(classification, github_confidence, rag_results, library_detection) ==
    LET classification_conf ==
            ScoreScale * (IF classification = <<>>
                          THEN DefaultClassificationConfidence
                          ELSE classification[1].confidence)
        github_conf == ScoreScale * github_confidence
        top == SubSeq(rag_results, 1, MinOf(3, Len(rag_results)))
        rag_conf ==
            IF rag_results = <<>> THEN 0
            ELSE (ScoreScale * SumOf([i \in DOMAIN top |-> top[i].similarity_score]))
                 \div MinOf(3, Len(rag_results))
        lib_conf == ScoreScale * (IF library_detection = <<>> THEN 0
                                  ELSE library_detection[1].confidence)
        overall == classification_conf * WeightClassification
                   + github_conf * WeightGithub
                   + rag_conf * WeightRag
                   + lib_conf * WeightLibrary
        contributions == SortByContribution(
            <<[name |-> "LLM classification", score |-> classification_conf,
               weight |-> WeightClassification],
              [name |-> "GitHub issue matches", score |-> github_conf,
               weight |-> WeightGithub],
              [name |-> "RAG knowledge base", score |-> rag_conf,
               weight |-> WeightRag],
              [name |-> "Library detection", score |-> lib_conf,
               weight |-> WeightLibrary]>>)
        parts == SelectSeq(contributions, LAMBDA c : c.score > ExplainAbove)
        names == [i \in DOMAIN parts |-> parts[i].name]
    IN [classification |-> classification_conf,
        github |-> github_conf,
        rag |-> rag_conf,
        library_detection |-> lib_conf,
        overall |-> overall,
        explanation |-> SubSeq(names, 1, MinOf(2, Len(names)))]

\* compute_github_confidence (github_tools), in 1/600.  A title is its list
\* of words in lower case; relevance scores are in tenths.
\* len(ticket_words & issue_words) / max(len(ticket_words), len(issue_words))
TitleOverlap(ticket_title, issue_title) ==
    LET ticket_words == Range(ticket_title)
        issue_words == Range(issue_title)
        larger == IF Cardinality(ticket_words) > Cardinality(issue_words)
                  THEN Cardinality(ticket_words) ELSE Cardinality(issue_words)
    IN IF ticket_words = {} \/ issue_words = {} THEN 0
       ELSE (100 * ScoreScale * Cardinality(ticket_words \cap issue_words))
            \div larger

\* factor 1: the best match among the first three issues, times 0.4
TitleContribution(issues, ticket_title) ==
    LET top == SubSeq(issues, 1, MinOf(3, Len(issues)))
        best_title_match ==
            IF \E i \in DOMAIN top : top[i].title = ticket_title
            THEN 100 * ScoreScale
            ELSE MaxOf({0} \cup {TitleOverlap(ticket_title, top[i].title) :
                                    i \in DOMAIN top})
    IN IF ticket_title = <<>> THEN 0 ELSE (best_title_match * 4) \div 10

compute_github_confidence(issues, ticket_title) ==
    IF issues = <<>> THEN 0
    ELSE LET closed_count ==
                 Cardinality({i \in DOMAIN issues : issues[i].state = "closed"})
             top == SubSeq(issues, 1, MinOf(3, Len(issues)))
             confidence ==
                 TitleContribution(issues, ticket_title)
                 + MinOf(30 * ScoreScale, closed_count * 10 * ScoreScale)
                 + (IF Len(issues) >= 3 THEN 20 * ScoreScale
                    ELSE 10 * ScoreScale)
                 + (ScoreScale * SumOf([i \in DOMAIN top |->
                                            top[i].relevance_score]))
                   \div MinOf(3, Len(issues))
         IN MinOf(100 * ScoreScale, confidence)

\* state.get("github_confidence", 0.0)
GithubConfidenceOf(st) ==
    IF "github_confidence" \in DOMAIN st THEN st.github_confidence ELSE 0

diagnoser_node(st, out) ==
    LET hypotheses == SortByLikelihood(GeneratedHypotheses(out))
        selected == IF hypotheses # <<>> THEN <<hypotheses[1]>> ELSE <<>>
        next_phase ==
            IF selected # <<>> /\ selected[1].likelihood = "high"
            THEN "resolution" ELSE "complete"
    IN [hypotheses |-> hypotheses,
        selected_hypothesis |-> selected,
        confidence_breakdown |->
            <<compute_confidence_breakdown(st.classification,
                                           GithubConfidenceOf(st),
                                           st.rag_results,
                                           st.library_detection)>>,
        current_phase |-> next_phase]

\* info_gatherer_node ----------------------------------------------------
MaxAttempts == 3

\* (mutant) the question is stored under a key the wait-point does not read
info_gatherer_node_NoQuestionKey(st, question) ==
    IF st.info_gathering_attempts >= MaxAttempts
    THEN [current_phase |-> "searching",
          needs_user_input |-> FALSE,
          missing_info |-> <<>>]
    ELSE [messages |-> <<Msg("assistant", question)>>,
          needs_user_input |-> TRUE,
          pending_question |-> <<question>>,
          info_gathering_attempts |-> st.info_gathering_attempts + 1]

\* (mutant) the question is asked without raising needs_user_input
info_gatherer_node_NotWaiting(st, question) ==
    IF st.info_gathering_attempts >= MaxAttempts
    THEN [current_phase |-> "searching",
          needs_user_input |-> FALSE,
          missing_info |-> <<>>]
    ELSE [messages |-> <<Msg("assistant", question)>>,
          needs_user_input |-> FALSE,
          user_question |-> <<question>>,
          info_gathering_attempts |-> st.info_gathering_attempts + 1]

\* (mutant) a question counts for two
info_gatherer_node_CountsTwice(st, question) ==
    IF st.info_gathering_attempts >= MaxAttempts
    THEN [current_phase |-> "searching",
          needs_user_input |-> FALSE,
          missing_info |-> <<>>]
    ELSE [messages |-> <<Msg("assistant", question)>>,
          needs_user_input |-> TRUE,
          user_question |-> <<question>>,
          info_gathering_attempts |-> st.info_gathering_attempts + 2]

info_gatherer_node(st, question) ==
    IF st.info_gathering_attempts >= MaxAttempts
    THEN [current_phase |-> "searching",
          needs_user_input |-> FALSE,
          missing_info |-> <<>>]
    ELSE [messages |-> <<Msg("assistant", question)>>,
          needs_user_input |-> TRUE,
          user_question |-> <<question>>,
          info_gathering_attempts |-> st.info_gathering_attempts + 1]

\* user_input_node --------------------------------------------------------
\* the payload handed to interrupt()
DefaultQuestion == <<"Could you provide more details?">>

InterruptPayload(st) ==
    [question |-> IF st.user_question = <<>> THEN DefaultQuestion
                  ELSE st.user_question[1],
     type |-> "user_input_needed"]

\* the rest of the function, run when interrupt() returns the user's answer
\* (mutant) the new clarification replaces the earlier ones
AddClarification_Overwrite(additional_context, user_response) ==
    <<"User clarification: ">> \o user_response

AddClarification(additional_context, user_response) ==
    (IF additional_context # <<>> THEN additional_context \o <<"\n\n">>
     ELSE additional_context)
    \o <<"User clarification: ">> \o user_response

\* (mutant) the resume starts the question count over
user_input_node_ResetsAttempts(st, user_response) ==
    [bug_report |->
        [st.bug_report EXCEPT !.additional_context =
            AddClarification(st.bug_report.additional_context, user_response)],
     messages |-> <<Msg("user", user_response)>>,
     needs_user_input |-> FALSE,
     info_gathering_attempts |-> 0,
     current_phase |-> "classification"]

\* (mutant) the resume discards the evidence gathered before the question
user_input_node_DropsEvidence(st, user_response) ==
    [bug_report |->
        [st.bug_report EXCEPT !.additional_context =
            AddClarification(st.bug_report.additional_context, user_response)],
     messages |-> <<Msg("user", user_response)>>,
     needs_user_input |-> FALSE,
     related_issues |-> <<>>,
     rag_results |-> <<>>,
     current_phase |-> "classification"]

\* (mutant) the resume leaves the question flag raised
user_input_node_KeepsWaiting(st, user_response) ==
    [bug_report |->
        [st.bug_report EXCEPT !.additional_context =
            AddClarification(st.bug_report.additional_context, user_response)],
     messages |-> <<Msg("user", user_response)>>,
     current_phase |-> "classification"]

\* (mutant) the answer becomes the description of the report
user_input_node_ReplacesDescription(st, user_response) ==
    [bug_report |->
        [st.bug_report EXCEPT !.raw_description = user_response,
                              !.additional_context =
            AddClarification(st.bug_report.additional_context, user_response)],
     messages |-> <<Msg("user", user_response)>>,
     needs_user_input |-> FALSE,
     current_phase |-> "classification"]

user_input_node(st, user_response) ==
    [bug_report |->
        [st.bug_report EXCEPT !.additional_context =
            AddClarification(st.bug_report.additional_context, user_response)],
     messages |-> <<Msg("user", user_response)>>,
     needs_user_input |-> FALSE,
     current_phase |-> "classification"]

\* resolution_node --------------------------------------------------------
\* (mutant) a failed plan call leaves no plan
FallbackPlan_Empty == <<>>

FallbackPlan == <<[order |-> 1, action |-> "review the error"],
                  [order |-> 2, action |-> "search for the error"]>>

GeneratedPlan(out) ==
    IF out.ok
    THEN [i \in 1..Len(out.orders) |->
            [order |-> IF out.orders[i] = 0 THEN i ELSE out.orders[i],
             action |-> "generated"]]
    ELSE FallbackPlan

\* (mutant) the resolution stage leaves the phase as it found it
resolution_node_KeepsPhase(st, out) ==
    [resolution_plan |-> IF st.selected_hypothesis = <<>> THEN <<>>
                         ELSE GeneratedPlan(out),
     current_phase |-> st.current_phase,
     messages |-> <<Msg("assistant", <<"# Diagnostic Report">>)>>]

resolution_node(st, out) ==
    IF st.selected_hypothesis = <<>>
    THEN [resolution_plan |-> <<>>,
          current_phase |-> "complete",
          messages |-> <<Msg("assistant", <<"Unable to generate a resolution plan.">>)>>]
    ELSE [resolution_plan |-> GeneratedPlan(out),
          current_phase |-> "complete",
          messages |-> <<Msg("assistant", <<"# Diagnostic Report">>)>>]

\* --------------------------------------------------------------- routing
AttemptsBeforeGivingUp == 2

\* (mutant) the cap is compared with <= instead of <
route_after_diagnosis_OffByOne(st) ==
    IF st.hypotheses # <<>> /\ st.hypotheses[1].likelihood = "high"
    THEN "resolution"
    ELSE IF st.info_gathering_attempts <= AttemptsBeforeGivingUp
    THEN "gathering"
    ELSE "end"

\* (mutant) no cap: every diagnosis without a high top hypothesis asks again
route_after_diagnosis_NoCap(st) ==
    IF st.hypotheses # <<>> /\ st.hypotheses[1].likelihood = "high"
    THEN "resolution"
    ELSE "gathering"

\* (mutant) any hypothesis at all is good enough for a plan
route_after_diagnosis_AnyHypothesis(st) ==
    IF st.hypotheses # <<>>
    THEN "resolution"
    ELSE IF st.info_gathering_attempts < AttemptsBeforeGivingUp
    THEN "gathering"
    ELSE "end"

route_after_diagnosis(st) ==
    IF st.hypotheses # <<>> /\ st.hypotheses[1].likelihood = "high"
    THEN "resolution"
    ELSE IF st.info_gathering_attempts < AttemptsBeforeGivingUp
    THEN "gathering"
    ELSE "end"

route_after_user_input(st) == "diagnoser"

\* (mutant) the answer is sent back to the classifier, as current_phase says
Successors_Reclassify(node, st) ==
    IF node = "intake" THEN {"classifier"}
    ELSE IF node = "classifier" THEN {"github_search", "rag_search"}
    ELSE IF node \in {"github_search", "rag_search"} THEN {"diagnoser"}
    ELSE IF node = "diagnoser"
    THEN LET route == route_after_diagnosis(st)
         IN IF route = "resolution" THEN {"resolution"}
            ELSE IF route = "gathering" THEN {"info_gatherer"}
            ELSE {}
    ELSE IF node = "info_gatherer" THEN {"user_input"}
    ELSE IF node = "user_input" THEN {"classifier"}
    ELSE {}

\* (mutant) the phase the classifier returned picks the next stage
Successors_ByPhase(node, st) ==
    IF node = "intake" THEN {"classifier"}
    ELSE IF node = "classifier"
    THEN (IF st.current_phase = "gathering" THEN {"info_gatherer"}
          ELSE {"github_search", "rag_search"})
    ELSE IF node \in {"github_search", "rag_search"} THEN {"diagnoser"}
    ELSE IF node = "diagnoser"
    THEN LET route == route_after_diagnosis(st)
         IN IF route = "resolution" THEN {"resolution"}
            ELSE IF route = "gathering" THEN {"info_gatherer"}
            ELSE {}
    ELSE IF node = "info_gatherer" THEN {"user_input"}
    ELSE IF node = "user_input" THEN {route_after_user_input(st)}
    ELSE {}

\* build_diagnostic_graph: the nodes that an executed node triggers for the
\* next superstep, in the state that results from merging its update
Successors(node, st) ==
    IF node = "intake" THEN {"classifier"}
    ELSE IF node = "classifier" THEN {"github_search", "rag_search"}
    ELSE IF node \in {"github_search", "rag_search"} THEN {"diagnoser"}
    ELSE IF node = "diagnoser"
    THEN LET route == route_after_diagnosis(st)
         IN IF route = "resolution" THEN {"resolution"}
            ELSE IF route = "gathering" THEN {"info_gatherer"}
            ELSE {}
    ELSE IF node = "info_gatherer" THEN {"user_input"}
    ELSE IF node = "user_input" THEN {route_after_user_input(st)}
    ELSE {}

\* ------------------------------------------------------------ the engine
VARIABLES
    state,        \* channel values of the session (of the latest thread id)
    next,         \* the nodes of the superstep to run (empty at END)
    writes,       \* updates returned by the finished tasks of a parallel step
    interrupt,    \* the payload of a pending interrupt(), if any
    outcome,      \* what the caller's stream call is doing / came back with
    checkpoint,   \* the session's checkpoint in this process's MemorySaver
    exec,         \* history: executions of each node in this session
    last,         \* history: the node that completed last in this session
    suspensions,  \* history: interrupts raised in this session
    resumes,      \* history: resumes merged in this session
    answers,      \* history: the answers given at the resumes, in order
    gathered,     \* history: what the two searches returned
    evidence,     \* history: the evidence fields at the last suspension
    waiting,      \* history: a question was asked and no resume answered it
    completed,    \* history: stages completed by a session left waiting
    redone,       \* history: those stages executed again by a later process
    second,       \* a second execution resuming the same thread, if any
    raised,       \* the stage whose execution raised an exception, if any
    google_api_key, \* the credential of the configuration (absent: <<>>)
    reported,     \* configuration errors reported by the current run
    computed      \* the latest application of a stage function on its own

vars == <<state, next, writes, interrupt, outcome, checkpoint, exec, last, suspensions, resumes, answers, gathered, evidence,
          waiting, completed, redone, second, raised, google_api_key, reported, computed>>

ParallelNodes == {"github_search", "rag_search"}
NoWrites == [n \in ParallelNodes |-> <<>>]
NoEvidence == [related_issues |-> <<>>, rag_results |-> <<>>,
               library_detection |-> <<>>]

EvidenceOf(st) == [related_issues |-> st.related_issues,
                   rag_results |-> st.rag_results,
                   library_detection |-> st.library_detection]

\* the checkpointer saves the channel values and the pending nodes after
\* every superstep, and at an interrupt
Saved(st, nxt, intr) == <<[values |-> st, next |-> nxt, interrupt |-> intr]>>

Init ==
    /\ state = DiagnosticState
    /\ next = {}
    /\ writes = NoWrites
    /\ interrupt = <<>>
    /\ outcome = "idle"
    /\ checkpoint = <<>>
    /\ exec = [n \in Nodes |-> 0]
    /\ last = "none"
    /\ suspensions = 0
    /\ resumes = 0
    /\ answers = <<>>
    /\ gathered = NoWrites
    /\ evidence = NoEvidence
    /\ waiting = FALSE
    /\ completed = {}
    /\ redone = {}
    /\ second = <<>>
    /\ raised = <<>>
    /\ google_api_key \in {<<>>, <<"key">>}
    /\ reported = 0
    /\ computed = <<>>

\* (mutant) the configuration is not validated
validate_AcceptsAnything(key) == TRUE

\* Config.validate: the required credential is set
validate(key) == key # <<>>

\* Every caller validates the configuration before it builds the agent: with
\* the credential missing it prints the configuration error and returns.
ConfigError ==
    /\ outcome = "idle"
    /\ ~validate(google_api_key)
    /\ outcome' = "config_error"
    /\ reported' = reported + 1
    /\ UNCHANGED <<state, next, writes, interrupt, checkpoint, exec, last,
                   suspensions, resumes, answers, gathered, evidence,
                   waiting, completed, redone, second, raised,
                   google_api_key, computed>>

\* A caller (run_agent, process_ticket) builds the agent with a new
\* MemorySaver, draws a new thread id and streams the initial state.
Start(report) ==
    /\ outcome = "idle"
    /\ validate(google_api_key)
    /\ state' = Merge(DiagnosticState, [messages |-> <<Msg("user", report)>>])
    /\ next' = {"intake"}
    /\ writes' = NoWrites
    /\ interrupt' = <<>>
    /\ outcome' = "running"
    /\ checkpoint' = Saved(state', next', <<>>)
    /\ exec' = [n \in Nodes |-> 0]
    /\ last' = "none"
    /\ suspensions' = 0
    /\ resumes' = 0
    /\ answers' = <<>>
    /\ gathered' = NoWrites
    /\ evidence' = NoEvidence
    /\ second' = <<>>
    /\ raised' = <<>>
    /\ UNCHANGED <<waiting, completed, redone, google_api_key, reported, computed>>

\* One superstep with a single node: run it, merge its update, evaluate the
\* outgoing edges on the merged state, save the checkpoint.
Step(n, upd) ==
    /\ outcome = "running"
    /\ next = {n}
    /\ LET merged == Merge(state, upd)
           successors == Successors(n, merged)
       IN /\ state' = merged
          /\ next' = successors
          /\ outcome' = IF successors = {} THEN "finished" ELSE "running"
          /\ checkpoint' = Saved(merged, successors, <<>>)
    /\ exec' = [exec EXCEPT ![n] = @ + 1]
    /\ last' = n
    /\ redone' = redone \cup ({n} \cap completed)
    /\ UNCHANGED <<writes, interrupt, suspensions, resumes,
                   answers, gathered, evidence, waiting, completed, second, raised, google_api_key, reported, computed>>

Intake(out) == Step("intake", intake_node(state, out))

Classifier(out) == Step("classifier", classifier_node(state, out))

Diagnoser(out) == Step("diagnoser", diagnoser_node(state, out))

InfoGatherer(question) ==
    Step("info_gatherer", info_gatherer_node(state, question))

Resolution(out) == Step("resolution", resolution_node(state, out))

\* the stages that call the language model
GenerationStages == {"intake", "classifier", "diagnoser", "info_gatherer",
                     "resolution"}

\* the stage function reaches its generation call in state st (intake
\* returns before it without a user message, info_gatherer at the cap of
\* attempts, resolution without a selected hypothesis)
CallsGeneration(n, st) ==
    IF n = "intake" THEN LastUserMessage(st.messages) # <<>>
    ELSE IF n = "info_gatherer" THEN st.info_gathering_attempts < MaxAttempts
    ELSE IF n = "resolution" THEN st.selected_hypothesis # <<>>
    ELSE TRUE

\* The generation call raises (a transport failure, a blocked response) or
\* returns JSON of a shape the stage does not expect (a list for an object):
\* the exception is none of those the stage catches, so it leaves the stage
\* function, the engine re-raises it and the caller's stream call ends with
\* it.  Nothing of the stage is merged.
StageRaises(n) ==
    /\ outcome = "running"
    /\ next = {n}
    /\ CallsGeneration(n, state)
    /\ outcome' = "error"
    /\ raised' = <<n>>
    /\ UNCHANGED <<state, next, writes, interrupt, checkpoint, exec, last,
                   suspensions, resumes, answers, gathered, evidence,
                   waiting, completed, redone, second, google_api_key,
                   reported, computed>>

\* The superstep of the two searches: each task reads the state the step
\* started with and hands its update to the engine; nothing is merged
\* before every task of the step has returned.
Task(n, upd) ==
    /\ outcome = "running"
    /\ next = ParallelNodes
    /\ writes[n] = <<>>
    /\ writes' = [writes EXCEPT ![n] = <<upd>>]
    /\ gathered' = [gathered EXCEPT ![n] = <<upd>>]
    /\ exec' = [exec EXCEPT ![n] = @ + 1]
    /\ redone' = redone \cup ({n} \cap completed)
    /\ UNCHANGED <<state, next, interrupt, outcome, checkpoint,
                   last, suspensions, resumes, answers, evidence, waiting,
                   completed, second, raised, google_api_key, reported, computed>>

GithubSearch(out) == Task("github_search", github_search_node(state, out))

RagSearch(out) == Task("rag_search", rag_search_node(state, out))

\* every task of the running superstep has returned
StepComplete_AnyTask == \E n \in next : writes[n] # <<>>

StepComplete == \A n \in next : writes[n] # <<>>

KeysOf(w) == IF w = <<>> THEN {} ELSE DOMAIN w[1]

Apply(st, w) == IF w = <<>> THEN st ELSE Merge(st, w[1])

\* keys without a reducer that both updates of the step assign
ConflictingKeys ==
    (KeysOf(writes["github_search"]) \cap KeysOf(writes["rag_search"])
     \cap DOMAIN state) \ AppendKeys

\* The end of the parallel superstep.  Both searches assign current_phase,
\* a key without a reducer: the engine either refuses the step (the stream
\* call raises and the session stays where it was) or keeps the value of
\* the update it applies last; all three outcomes are possible.
FanIn(resolve) ==
    /\ outcome = "running"
    /\ next = ParallelNodes
    /\ StepComplete
    /\ ConflictingKeys = {} => resolve = "rag_search"
    /\ writes' = NoWrites
    /\ IF resolve = "refuse"
       THEN /\ outcome' = "error"
            /\ UNCHANGED <<state, next, checkpoint, last>>
       ELSE LET first == CHOOSE n \in ParallelNodes : n # resolve
            IN /\ state' = Apply(Apply(state, writes[first]), writes[resolve])
               /\ next' = UNION {Successors(n, state') : n \in ParallelNodes}
               /\ outcome' = "running"
               /\ checkpoint' = Saved(state', next', <<>>)
               /\ last' = resolve
    /\ UNCHANGED <<interrupt, exec, suspensions, resumes, answers, gathered,
                   evidence, waiting, completed, redone,
                   second, raised, google_api_key, reported, computed>>

\* user_input_node reaches interrupt(): the engine saves the checkpoint with
\* the payload and the stream call returns to the caller.
UserInput ==
    /\ outcome = "running"
    /\ next = {"user_input"}
    /\ interrupt = <<>>
    /\ interrupt' = <<InterruptPayload(state)>>
    /\ outcome' = "interrupted"
    /\ checkpoint' = Saved(state, next, interrupt')
    /\ exec' = [exec EXCEPT !["user_input"] = @ + 1]
    /\ suspensions' = suspensions + 1
    /\ evidence' = EvidenceOf(state)
    /\ waiting' = TRUE
    /\ redone' = redone \cup ({"user_input"} \cap completed)
    /\ UNCHANGED <<state, next, writes, last, resumes, answers,
                   gathered, completed, second, raised, google_api_key, reported, computed>>

\* stream(Command(resume=answer)) on the same thread, by the process that
\* holds the checkpoint: user_input_node runs again from its first line,
\* interrupt() returns the answer, and the node's update is merged.
Resume(answer) ==
    /\ outcome = "interrupted"
    /\ checkpoint # <<>>
    /\ checkpoint[1].interrupt # <<>>
    /\ state' = Merge(checkpoint[1].values,
                      user_input_node(checkpoint[1].values, answer))
    /\ next' = Successors("user_input", state')
    /\ interrupt' = <<>>
    /\ outcome' = IF next' = {} THEN "finished" ELSE "running"
    /\ checkpoint' = Saved(state', next', <<>>)
    /\ exec' = [exec EXCEPT !["user_input"] = @ + 1]
    /\ last' = "user_input"
    /\ resumes' = resumes + 1
    /\ answers' = Append(answers, answer)
    /\ waiting' = FALSE
    /\ UNCHANGED <<writes, suspensions, gathered, evidence,
                   completed, redone, second, raised, google_api_key, reported, computed>>

\* The stream call is over (END, an interrupt nobody answers in this
\* process, or an exception) and the process ends: the MemorySaver and the
\* thread id go with it.
ProcessExit ==
    /\ outcome \in {"finished", "interrupted", "error", "config_error"}
    /\ outcome' = "idle"
    /\ reported' = 0
    /\ checkpoint' = <<>>
    /\ interrupt' = <<>>
    /\ completed' = IF outcome = "interrupted"
                    THEN completed \cup {n \in Nodes : exec[n] > 0}
                    ELSE completed
    /\ UNCHANGED <<state, next, writes, exec, last, suspensions, resumes,
                   answers, gathered, evidence, waiting, redone, second,
                   raised, google_api_key, computed>>

SessionNext ==
    \/ ConfigError
    \/ \E report \in Reports : Start(report)
    \/ \E n \in GenerationStages : StageRaises(n)
    \/ \E out \in IntakeOutputs : Intake(out)
    \/ \E out \in ClassifierOutputs : Classifier(out)
    \/ \E out \in GithubOutputs : GithubSearch(out)
    \/ \E out \in RagOutputs : RagSearch(out)
    \/ \E resolve \in {"refuse", "github_search", "rag_search"} : FanIn(resolve)
    \/ \E out \in DiagnoserOutputs : Diagnoser(out)
    \/ \E question \in Questions : InfoGatherer(question)
    \/ UserInput
    \/ \E answer \in Answers : Resume(answer)
    \/ \E out \in ResolutionOutputs : Resolution(out)

\* one session, driven by a process that stays alive
Spec == Init /\ [][SessionNext]_vars

\* the runs of successive processes on one ticket
Next == SessionNext \/ ProcessExit

TicketSpec == Init /\ [][Next]_vars

\* A second stream(Command(resume=...)) call on the thread of a suspended
\* session, made while the first caller is resuming it.  The compiled graph
\* and its MemorySaver take no lock per thread id: the call loads the latest
\* checkpoint of the thread whenever it starts ...
SecondLoad ==
    /\ outcome = "interrupted"
    /\ checkpoint # <<>>
    /\ checkpoint[1].interrupt # <<>>
    /\ second = <<>>
    /\ second' = <<[loaded |-> checkpoint[1], written |-> FALSE]>>
    /\ UNCHANGED <<state, next, writes, interrupt, outcome, checkpoint, exec,
                   last, suspensions, resumes, answers, gathered, evidence,
                   waiting, completed, redone, raised, google_api_key, reported, computed>>

\* ... runs user_input_node on the values it loaded, with its own answer, and
\* saves the result as the latest checkpoint of the thread, whatever the
\* other execution has saved in between (the call then holds nothing more
\* of the session).  The overlap modelled is the closest one: the second
\* call saves no later than the superstep that follows the first resume.
SecondResume(answer) ==
    /\ second # <<>>
    /\ ~second[1].written
    /\ outcome = "interrupted" \/ last = "user_input"
    /\ LET values == second[1].loaded.values
           merged == Merge(values, user_input_node(values, answer))
       IN checkpoint' = Saved(merged, Successors("user_input", merged), <<>>)
    /\ second' = <<[loaded |-> <<>>, written |-> TRUE]>>
    /\ UNCHANGED <<state, next, writes, interrupt, outcome, exec,
                   last, suspensions, resumes, answers, gathered, evidence,
                   waiting, completed, redone, raised, google_api_key, reported, computed>>

ConcurrentNext ==
    \/ SessionNext
    \/ SecondLoad
    \/ \E answer \in Answers : SecondResume(answer)

\* the stages up to the classifier, over every classification output
ClassifierNext ==
    \/ \E report \in Reports : Start(report)
    \/ \E out \in IntakeOutputs : Intake(out)
    \/ \E out \in AllClassifierOutputs : Classifier(out)

ClassifierSpec == Init /\ [][ClassifierNext]_vars

\* A stage function applied on its own to one input of its domain
Computes(call) ==
    /\ outcome = "idle"
    /\ computed = <<>>
    /\ computed' = <<call>>
    /\ UNCHANGED <<state, next, writes, interrupt, outcome, checkpoint, exec,
                   last, suspensions, resumes, answers, gathered, evidence,
                   waiting, completed, redone, second, raised, google_api_key,
                   reported>>

\* the searches, the merge, the sort and the cut of github_search_node
SearchIssues(repos_to_search, queries, provider) ==
    LET found == ExecuteSearches(<<>>, 1, repos_to_search, queries, provider)
    IN Computes([fn |-> "github_search_node",
                 repos_to_search |-> repos_to_search,
                 queries |-> queries,
                 provider |-> provider,
                 all_issues |-> found,
                 related_issues |-> TopRelatedIssues(found)])

ComputeBreakdown(classification, github_confidence, rag_results, library_detection) ==
    Computes([fn |-> "compute_confidence_breakdown",
              classification |-> classification,
              github_confidence |-> github_confidence,
              rag_results |-> rag_results,
              library_detection |-> library_detection,
              breakdown |-> compute_confidence_breakdown(
                                classification, github_confidence,
                                rag_results, library_detection)])

\* classifier_node on one output of the classification call
Classify(out) ==
    Computes([fn |-> "classifier_node",
              out |-> out,
              update |-> classifier_node(DiagnosticState, out)])

\* diagnoser_node on one output of the hypothesis call, and the routing
\* decision on the state it leaves
Diagnose(attempts, out) ==
    LET st == [DiagnosticState EXCEPT !.info_gathering_attempts = attempts]
        update == diagnoser_node(st, out)
    IN Computes([fn |-> "diagnoser_node",
                 attempts |-> attempts,
                 out |-> out,
                 generated |-> GeneratedHypotheses(out),
                 update |-> update,
                 successors |-> Successors("diagnoser", Merge(st, update))])

\* info_gatherer_node on a state with a given count of questions, then the
\* node its edge leads to: user_input_node calls interrupt() on entry
GatherInformation(attempts, asked, question) ==
    LET st == [DiagnosticState EXCEPT
                  !.info_gathering_attempts = attempts,
                  !.user_question = asked,
                  !.missing_info = <<"stack trace">>,
                  !.current_phase = "complete"]
        update == info_gatherer_node(st, question)
        after == Merge(st, update)
        successors == Successors("info_gatherer", after)
    IN Computes([fn |-> "info_gatherer_node",
                 attempts |-> attempts,
                 update |-> update,
                 after |-> after,
                 successors |-> successors,
                 interrupt |-> IF "user_input" \in successors
                               THEN <<InterruptPayload(after)>> ELSE <<>>])

ComputeGithubConfidence(issues, ticket_title) ==
    Computes([fn |-> "compute_github_confidence",
              issues |-> issues,
              ticket_title |-> ticket_title,
              title_part |-> TitleContribution(issues, ticket_title),
              confidence |-> compute_github_confidence(issues, ticket_title)])

FunctionNext ==
    \/ /\ computed = <<>>
       /\ \E repos_to_search \in RepoLists, queries \in QueryLists :
            \E provider \in [Range(repos_to_search) \X Range(queries) -> ItemLists] :
                SearchIssues(repos_to_search, queries, provider)
    \/ /\ computed = <<>>
       /\ \E classification \in BreakdownClassifications,
             github_confidence \in BreakdownGithubConfidences,
             rag_results \in BreakdownRagResults,
             library_detection \in BreakdownLibraryDetections :
                ComputeBreakdown(classification, github_confidence,
                                 rag_results, library_detection)
    \/ /\ computed = <<>>
       /\ \E out \in AllClassifierOutputs : Classify(out)
    \/ /\ computed = <<>>
       /\ \E attempts \in 0..AttemptsBeforeGivingUp, out \in AllDiagnoserOutputs :
            Diagnose(attempts, out)
    \/ /\ computed = <<>>
       /\ \E attempts \in 0..(MaxAttempts + 1), asked \in {<<>>} \cup {<<q>> : q \in Questions},
             question \in Questions :
                GatherInformation(attempts, asked, question)
    \/ /\ computed = <<>>
       /\ \E issues \in SeqsUpTo(ScoredIssues, 4), ticket_title \in TicketTitles :
            ComputeGithubConfidence(issues, ticket_title)

\* the functions do not read the configuration
FunctionInit == Init /\ google_api_key = <<"key">>

FunctionSpec == FunctionInit /\ [][FunctionNext]_vars

\* one session whose thread two callers may resume at the same time
ConcurrentSpec == Init /\ [][ConcurrentNext]_vars

\* ------------------------------------------------------------ properties
TopIsHigh(st) == st.hypotheses # <<>> /\ st.hypotheses[1].likelihood = "high"

IsPrefix(a, b) == Len(a) <= Len(b) /\ SubSeq(b, 1, Len(a)) = a

Executes(n) == exec'[n] = exec[n] + 1

C2_AttemptsBoundedMonotone ==
    /\ [](state.info_gathering_attempts \in 0..3)
    /\ [][outcome # "idle" =>
            state'.info_gathering_attempts >= state.info_gathering_attempts]_vars

C2_TwoQuestionsAnswered ==
    /\ resumes = 2
    /\ state.info_gathering_attempts = 2
    /\ exec["diagnoser"] = 3

\* C3 (as claimed): after 2 suspend/resume cycles the decision after the
\* following diagnosis is always end, with no resolution plan.
C3_AlwaysEndAfterTwoCycles ==
    (resumes = 2 /\ exec["diagnoser"] = 3) =>
        /\ next = {}
        /\ exec["resolution"] = 0
        /\ state.resolution_plan = <<>>

\* C3 (amended): after 2 suspend/resume cycles the following diagnosis is
\* never routed to info_gatherer; it is routed to end when its top hypothesis
\* is not high (the session then terminates with the hypotheses of that
\* diagnosis and an empty plan) and to resolution when it is high.
C3_NoThirdQuestion ==
    (resumes = 2 /\ exec["diagnoser"] = 3) =>
        /\ exec["info_gatherer"] = 2
        /\ next # {"info_gatherer"}
        /\ IF TopIsHigh(state)
           THEN next = {"resolution"} \/ (next = {} /\ exec["resolution"] = 1)
           ELSE /\ next = {}
                /\ outcome = "finished"
                /\ exec["resolution"] = 0
                /\ state.resolution_plan = <<>>
                /\ state.selected_hypothesis =
                     (IF state.hypotheses = <<>> THEN <<>>
                      ELSE <<state.hypotheses[1]>>)

C3_EndedAfterTwoCycles ==
    /\ resumes = 2
    /\ exec["diagnoser"] = 3
    /\ next = {}
    /\ state.hypotheses # <<>>
    /\ state.resolution_plan = <<>>

\* C4 (as claimed): when every stage returns and every question is
\* answered, the session reaches END, having suspended at most 2 times and
\* run the diagnoser at most 3 times.  The counters bound every run, so the
\* session reaches END unless it stops somewhere else: the stream call of a
\* session never comes back with an exception unless a stage raised it.
C4_ReachesEnd ==
    /\ outcome = "error" => raised # <<>>
    /\ outcome = "finished" => next = {}
    /\ suspensions <= 2
    /\ exec["diagnoser"] <= 3

C6_DiagnoserAfterBothSearches ==
    [][(Executes("diagnoser") /\ exec["diagnoser"] = 0) =>
        /\ exec["github_search"] = 1
        /\ exec["rag_search"] = 1
        /\ writes = NoWrites
        /\ gathered["github_search"] # <<>>
        /\ gathered["rag_search"] # <<>>
        /\ state.related_issues = gathered["github_search"][1].related_issues
        /\ state.library_detection =
             gathered["github_search"][1].library_detection
        /\ state.rag_results = gathered["rag_search"][1].rag_results]_vars

C6_DiagnosedWithOneEmptySearch ==
    /\ exec["diagnoser"] = 1
    /\ last = "diagnoser"
    /\ state.related_issues # <<>>
    /\ state.rag_results = <<>>

C8_ResumableByLaterProcess ==
    /\ waiting => (checkpoint # <<>> /\ checkpoint[1].interrupt # <<>>)
    /\ redone = {}

\* C9: a session suspends only at user_input, right after info_gatherer; at
\* every suspension the persisted state has needs_user_input = TRUE and the
\* pending question is the last agent entry of the conversation log; the
\* caller's call returns with the interrupt, not with an error.
LastAgentEntry(msgs) ==
    LET agent == {i \in DOMAIN msgs : msgs[i].role = "assistant"}
    IN IF agent = {} THEN <<>> ELSE <<msgs[MaxOf(agent)].content>>

C9_SuspensionAtUserInput ==
    interrupt # <<>> =>
        /\ outcome = "interrupted"
        /\ next = {"user_input"}
        /\ last = "info_gatherer"
        /\ checkpoint # <<>>
        /\ checkpoint[1].next = {"user_input"}
        /\ checkpoint[1].interrupt = interrupt
        /\ checkpoint[1].values.needs_user_input = TRUE
        /\ LastAgentEntry(checkpoint[1].values.messages)
             = <<interrupt[1].question>>

C9_SecondSuspension ==
    /\ interrupt # <<>>
    /\ suspensions = 2
    /\ outcome = "interrupted"

\* C10: after k resumes with answers a1..ak, additional_context is the k
\* entries "User clarification: ai" in the order given, separated by a blank
\* line; its value before a resume is a prefix of its value after it.
RECURSIVE Clarifications(_)
Clarifications(as) ==
    IF as = <<>> THEN <<>>
    ELSE LET entry == <<"User clarification: ">> \o as[Len(as)]
             before == Clarifications(SubSeq(as, 1, Len(as) - 1))
         IN IF before = <<>> THEN entry ELSE before \o <<"\n\n">> \o entry

C10_ContextAppendOnly ==
    /\ [](/\ Len(answers) = resumes
          /\ state.bug_report.additional_context = Clarifications(answers))
    /\ [][resumes' = resumes + 1 =>
            IsPrefix(state.bug_report.additional_context,
                     state'.bug_report.additional_context)]_vars

C10_TwoClarifications ==
    /\ resumes = 2
    /\ answers = << <<>>, <<"answer">> >>
    /\ state.bug_report.additional_context # <<>>

\* C11: right after a resume is merged, before the diagnoser runs again,
\* needs_user_input is FALSE, current_phase is classification, and the
\* conversation log has gained exactly one entry: a user turn with the answer.
C11_StateAfterResume ==
    [][resumes' = resumes + 1 =>
        /\ state'.needs_user_input = FALSE
        /\ state'.current_phase = "classification"
        /\ state'.messages =
             state.messages \o <<Msg("user", answers'[Len(answers')])>>
        /\ exec'["diagnoser"] = exec["diagnoser"]]_vars

C11_SecondResumeMerged ==
    /\ resumes = 2
    /\ last = "user_input"
    /\ next = {"diagnoser"}
    /\ state.current_phase = "classification"
    /\ state.messages[Len(state.messages)] = Msg("user", <<"answer">>)

\* C12: the conversation log is append-only: every step of a session leaves
\* the log it found as a prefix of the log it leaves (so the log of any
\* earlier state is a prefix of the log of any later state); no update
\* removes, reorders or rewrites an entry.
C12_LogAppendOnly ==
    [][IsPrefix(state.messages, state'.messages)]_vars

C12_ReportAfterTwoAnswers ==
    /\ last = "resolution"
    /\ resumes = 2
    /\ Len(state.messages) = 6
    /\ state.messages[1].role = "user"
    /\ state.messages[6].role = "assistant"

\* post is pre with the partial update upd merged by replace-if-present:
\* every field but the log holds the returned value if upd carries its key
\* and its value in pre if not
Framed(pre, upd, post) ==
    \A k \in DOMAIN pre \ AppendKeys :
        post[k] = IF k \in DOMAIN upd THEN upd[k] ELSE pre[k]

\* the fields of st overwritten by the keys upd carries (the log aside)
Overwritten(st, upd) ==
    [k \in DOMAIN st |->
        IF k \in DOMAIN upd /\ k \notin AppendKeys THEN upd[k] ELSE st[k]]

\* C13 (as claimed): for every stage, the partial update it returned is
\* merged by replace-if-present: a field other than the log keeps its value
\* when the update does not carry its key and takes the returned value when
\* it does.  The two updates of the evidence step are merged one after the
\* other, in either order.
C13_ReplaceIfPresent ==
    [][/\ Executes("intake") =>
            \E out \in IntakeOutputs :
                Framed(state, intake_node(state, out), state')
       /\ Executes("classifier") =>
            \E out \in ClassifierOutputs :
                Framed(state, classifier_node(state, out), state')
       /\ Executes("diagnoser") =>
            \E out \in DiagnoserOutputs :
                Framed(state, diagnoser_node(state, out), state')
       /\ Executes("info_gatherer") =>
            \E question \in Questions :
                Framed(state, info_gatherer_node(state, question), state')
       /\ Executes("resolution") =>
            \E out \in ResolutionOutputs :
                Framed(state, resolution_node(state, out), state')
       /\ resumes' = resumes + 1 =>
            Framed(state, user_input_node(state, answers'[Len(answers')]),
                   state')
       /\ (next = ParallelNodes /\ StepComplete /\ writes' = NoWrites) =>
            \E n \in ParallelNodes : \E m \in ParallelNodes \ {n} :
                Framed(Overwritten(state, writes[n][1]), writes[m][1],
                       state')]_vars

\* C14 (as claimed): a resume on a session that has reached current_phase =
\* complete is rejected: no stage executes and the state of the session is
\* unchanged.  So no step merges a resume into a session whose phase is
\* complete.
C14_NoResumeAfterComplete ==
    [][(state.current_phase = "complete" /\ resumes' = resumes + 1) =>
        (state' = state /\ exec' = exec)]_vars

\* C15 (as claimed): two resumes of one session issued concurrently are
\* rejected or serialized: an execution saves the state of the session only
\* if the checkpoint it resumed from is still the latest one, so that no
\* write of another execution is overwritten.
C15_SingleWriterPerSession ==
    [][(second # <<>> /\ second' # <<>> /\ second'[1].written
            /\ ~second[1].written)
        => checkpoint = <<second[1].loaded>>]_vars

\* C16 (as claimed): once a session has started, no outcome of a generation
\* call in intake, classifier, diagnoser, info_gatherer or resolution aborts
\* it: the stage returns a partial update and the workflow goes on, so the
\* caller's stream call never ends with an exception raised by such a stage.
C16_GenerationNeverAborts ==
    \A n \in GenerationStages : ~(outcome = "error" /\ raised = <<n>>)

\* C17 (as claimed): when the providers fail, the evidence stages still
\* return their updates with empty result lists, the step is merged and the
\* diagnoser runs afterwards.
C17_DiagnoserAfterFailedSearches ==
    (/\ exec["diagnoser"] = 0
     /\ raised = <<>>
     /\ gathered["github_search"] # <<>>
     /\ gathered["rag_search"] # <<>>
     /\ gathered["github_search"][1].related_issues = <<>>
     /\ gathered["rag_search"][1].rag_results = <<>>
     /\ writes = NoWrites)
    => /\ outcome = "running"
       /\ next = {"diagnoser"}
       /\ state.related_issues = <<>>
       /\ state.rag_results = <<>>

\* C18: with the required credential missing the run fails before any
\* stage executes: no stage has run, no session state and no checkpoint
\* exist, and the configuration error has been reported exactly once when the
\* run is over.
C18_FailsFastWithoutCredential ==
    google_api_key = <<>> =>
        /\ outcome \in {"idle", "config_error"}
        /\ \A n \in Nodes : exec[n] = 0
        /\ state = DiagnosticState
        /\ next = {}
        /\ checkpoint = <<>>
        /\ reported = (IF outcome = "config_error" THEN 1 ELSE 0)

C18_ConfigurationErrorReported ==
    /\ google_api_key = <<>>
    /\ outcome = "config_error"
    /\ reported = 1

C20_ConfidenceInUnitRange ==
    state.classification # <<>> =>
        state.classification[1].confidence \in 0..100

\* C21 (as claimed): a session whose classification confidence is >= 0.7 and
\* whose first diagnosis had no high top hypothesis (it was suspended and
\* resumed) ends with current_phase = complete and a non-empty plan.
C21_ResumedSessionEndsWithPlan ==
    (outcome = "finished" /\ resumes >= 1
        /\ state.classification # <<>>
        /\ state.classification[1].confidence >= ConfidenceThreshold) =>
        /\ state.current_phase = "complete"
        /\ state.resolution_plan # <<>>

\* C21 (amended): a first diagnosis with no high top hypothesis is routed to
\* info_gatherer; the question of info_gatherer is handed to user_input, which
\* suspends the session with it; the resume is followed by the diagnoser and
\* runs none of the evidence stages again; a session that ends has
\* current_phase = complete, and a non-empty plan only if the resolution stage
\* ran on a high top hypothesis.
C21_ResumeThenDiagnose ==
    /\ [][(Executes("diagnoser") /\ exec["diagnoser"] = 0 /\ ~TopIsHigh(state'))
            => (next' = {"info_gatherer"} /\ outcome' = "running")]_vars
    /\ [][Executes("info_gatherer")
            => (next' = {"user_input"} /\ state'.needs_user_input)]_vars
    /\ [][suspensions' = suspensions + 1
            => (outcome' = "interrupted" /\ interrupt' # <<>>
                /\ state.user_question # <<>>
                /\ interrupt'[1].question = state.user_question[1])]_vars
    /\ [][resumes' = resumes + 1
            => (next' = {"diagnoser"}
                /\ \A n \in {"intake", "classifier", "github_search", "rag_search"} :
                     exec'[n] = exec[n])]_vars
    /\ [](outcome = "finished" =>
            /\ state.current_phase = "complete"
            /\ (state.resolution_plan # <<>> =>
                    exec["resolution"] = 1 /\ TopIsHigh(state)))

C21_ResumedThenPlanned ==
    /\ outcome = "finished"
    /\ resumes = 1
    /\ state.classification[1].confidence >= ConfidenceThreshold
    /\ exec["diagnoser"] = 2
    /\ state.current_phase = "complete"
    /\ state.resolution_plan # <<>>

\* C22: current_phase = complete holds only in terminal states of a session:
\* no further stage will execute, needs_user_input is false and the session
\* is not suspended.
C22_CompleteOnlyWhenTerminal ==
    (outcome \in {"running", "interrupted", "finished"}
        /\ state.current_phase = "complete") =>
        /\ next = {}
        /\ ~state.needs_user_input
        /\ interrupt = <<>>

\* what the provider returned for the call: the (repo, number) pairs of the
\* answers, each cut to the page size of its query
ReturnedIssues(call) ==
    UNION {{<<repo, call.provider[<<repo, query>>][i]>> :
                i \in 1..MinOf(MaxPerQuery(query),
                               Len(call.provider[<<repo, query>>]))} :
            repo \in Range(call.repos_to_search), query \in Range(call.queries)}

KeysOfIssues(issues) == {<<issues[i].repo, issues[i].number>> : i \in DOMAIN issues}

\* C23: related_issues never holds two entries with the same (repo, number),
\* whatever the repositories, the queries and the answers of the provider;
\* every entry is an issue the provider returned for its repository, and when
\* at most 8 distinct issues were returned each of them is there once (the
\* same number in two repositories twice).
C23_NoDuplicateIssue ==
    (computed # <<>> /\ computed[1].fn = "github_search_node") =>
        LET rel == computed[1].related_issues
        IN /\ \A i, j \in DOMAIN rel :
                (rel[i].repo = rel[j].repo /\ rel[i].number = rel[j].number)
                    => i = j
           /\ KeysOfIssues(rel) \subseteq ReturnedIssues(computed[1])
           /\ Cardinality(ReturnedIssues(computed[1])) <= MaxRelatedIssues
                => KeysOfIssues(rel) = ReturnedIssues(computed[1])

C23_SameIssueTwiceSameNumberTwoRepos ==
    /\ computed # <<>>
    /\ computed[1].fn = "github_search_node"
    /\ Len(computed[1].queries) = 2
    /\ \E repo \in Range(computed[1].repos_to_search) :
          \E n \in 1..4 :
             \A query \in Range(computed[1].queries) :
                \E i \in 1..MinOf(MaxPerQuery(query),
                                  Len(computed[1].provider[<<repo, query>>])) :
                    computed[1].provider[<<repo, query>>][i] = n
    /\ \E i, j \in DOMAIN computed[1].related_issues :
          /\ computed[1].related_issues[i].number = computed[1].related_issues[j].number
          /\ computed[1].related_issues[i].repo # computed[1].related_issues[j].repo

\* C24: after github_search related_issues has at most 8 entries, is sorted
\* by relevance_score from the largest down, and holds no issue with a lower
\* score than a deduplicated issue that was left out.
C24_TopEightByRelevance ==
    (computed # <<>> /\ computed[1].fn = "github_search_node") =>
        LET rel == computed[1].related_issues
            deduped == computed[1].all_issues
        IN /\ Len(rel) <= 8
           /\ \A i \in 1..(Len(rel) - 1) :
                rel[i].relevance_score >= rel[i + 1].relevance_score
           /\ KeysOfIssues(rel) \subseteq KeysOfIssues(deduped)
           /\ \A i \in DOMAIN rel : \A j \in DOMAIN deduped :
                <<deduped[j].repo, deduped[j].number>> \notin KeysOfIssues(rel)
                    => rel[i].relevance_score >= deduped[j].relevance_score

C24_MoreThanEightFound ==
    /\ computed # <<>>
    /\ computed[1].fn = "github_search_node"
    /\ Len(computed[1].all_issues) > 8
    /\ Len(computed[1].related_issues) = 8
    /\ computed[1].related_issues[1].relevance_score
         > computed[1].related_issues[8].relevance_score

\* C25: confidence_breakdown.overall is 0.30 * classification + 0.35 * github
\* + 0.20 * knowledge + 0.15 * library, where knowledge is the mean similarity
\* of the first 3 knowledge results (0 when there is none); it is in [0, 1]
\* when every source score is; 0.8, 0.6, 0.5, 0.4 give 0.61.  Inputs are in
\* hundredths, source scores in 1/600 and overall in 1/60000.
C25_OverallIsWeightedSum ==
    (computed # <<>> /\ computed[1].fn = "compute_confidence_breakdown"
        /\ computed[1].classification # <<>>
        /\ computed[1].library_detection # <<>>) =>
        LET c == computed[1].classification[1].confidence
            g == computed[1].github_confidence
            l == computed[1].library_detection[1].confidence
            sims == computed[1].rag_results
            n == IF Len(sims) < 3 THEN Len(sims) ELSE 3
            first3 == IF n = 0 THEN 0
                      ELSE IF n = 1 THEN sims[1].similarity_score
                      ELSE IF n = 2
                      THEN sims[1].similarity_score + sims[2].similarity_score
                      ELSE sims[1].similarity_score + sims[2].similarity_score
                           + sims[3].similarity_score
            b == computed[1].breakdown
        IN /\ b.classification = 6 * c
           /\ b.github = 6 * g
           /\ b.library_detection = 6 * l
           /\ b.rag * (IF n = 0 THEN 1 ELSE n) = 6 * first3
           /\ b.overall = 30 * b.classification + 35 * b.github
                          + 20 * b.rag + 15 * b.library_detection
           /\ (c \in 0..100 /\ g \in 0..100 /\ l \in 0..100
               /\ \A i \in DOMAIN sims : sims[i].similarity_score \in 0..100)
                => b.overall \in 0..60000
           /\ (c = 80 /\ g = 60 /\ b.rag = 300 /\ l = 40) => b.overall = 36600

C25_ExampleGivesSixtyOne ==
    /\ computed # <<>>
    /\ computed[1].fn = "compute_confidence_breakdown"
    /\ computed[1].classification = <<[confidence |-> 80]>>
    /\ computed[1].github_confidence = 60
    /\ Len(computed[1].rag_results) = 4
    /\ computed[1].breakdown.rag = 300
    /\ computed[1].library_detection # <<>>
    /\ computed[1].library_detection[1].confidence = 40
    /\ computed[1].breakdown.overall = 36600

\* C26: the github score the diagnoser puts in confidence_breakdown is the
\* github_confidence that github_search computed in the same session; it is
\* greater than 0 whenever github_search found at least one issue.
C26_BreakdownUsesGithubConfidence ==
    (outcome \in {"running", "interrupted", "finished"}
        /\ exec["diagnoser"] >= 1
        /\ state.confidence_breakdown # <<>>
        /\ gathered["github_search"] # <<>>) =>
        /\ state.confidence_breakdown[1].github =
              ScoreScale * gathered["github_search"][1].github_confidence
        /\ gathered["github_search"][1].related_issues # <<>>
              => state.confidence_breakdown[1].github > 0

\* C27: when the classification output cannot be parsed the classifier
\* returns (it does not raise) exactly failure_type unknown, confidence 0.3
\* and missing_info [error message, steps to reproduce], and hence the phase
\* gathering.
C27_FallbackClassification ==
    (computed # <<>> /\ computed[1].fn = "classifier_node"
        /\ ~computed[1].out.ok) =>
        /\ DOMAIN computed[1].update =
              {"classification", "missing_info", "current_phase"}
        /\ Len(computed[1].update.classification) = 1
        /\ computed[1].update.classification[1].failure_type = "unknown"
        /\ computed[1].update.classification[1].confidence = 30
        /\ computed[1].update.missing_info =
              <<"error message", "steps to reproduce">>
        /\ computed[1].update.current_phase = "gathering"

C27_UnparseableClassified ==
    /\ computed # <<>>
    /\ computed[1].fn = "classifier_node"
    /\ ~computed[1].out.ok
    /\ computed[1].update.classification[1].failure_type = "unknown"
    /\ computed[1].update.current_phase = "gathering"

\* C28: after every diagnoser run hypotheses is a stable sort of the
\* generated hypotheses by likelihood in the order high, medium, low (any
\* other value after them; hypotheses of equal likelihood keep their order
\* in the response), and selected_hypothesis is the first element of the
\* sorted list, or undefined when the list is empty.  The description of a
\* generated hypothesis is its position in the response.
C28_StableSortByLikelihood ==
    (computed # <<>> /\ computed[1].fn = "diagnoser_node") =>
        LET generated == computed[1].generated
            sorted == computed[1].update.hypotheses
            rank(h) == IF h.likelihood = "high" THEN 0
                       ELSE IF h.likelihood = "medium" THEN 1
                       ELSE IF h.likelihood = "low" THEN 2 ELSE 3
        IN /\ Len(sorted) = Len(generated)
           /\ \A i \in DOMAIN generated : \E k \in DOMAIN sorted :
                sorted[k] = generated[i]
           /\ \A k \in 1..(Len(sorted) - 1) :
                \/ rank(sorted[k]) < rank(sorted[k + 1])
                \/ /\ rank(sorted[k]) = rank(sorted[k + 1])
                   /\ sorted[k].description < sorted[k + 1].description
           /\ computed[1].update.selected_hypothesis =
                (IF sorted = <<>> THEN <<>> ELSE <<sorted[1]>>)

C28_HighMovedAheadOrderKept ==
    /\ computed # <<>>
    /\ computed[1].fn = "diagnoser_node"
    /\ computed[1].out.ok
    /\ computed[1].out.likelihoods = <<"low", "medium", "high", "medium">>
    /\ Len(computed[1].update.hypotheses) = 4
    /\ computed[1].update.hypotheses[1].description = 3
    /\ computed[1].update.hypotheses[2].description = 2
    /\ computed[1].update.hypotheses[3].description = 4
    /\ computed[1].update.selected_hypothesis[1].likelihood = "high"

\* C29: when the hypothesis output cannot be parsed the diagnoser returns
\* exactly one hypothesis, of likelihood low, whose only evidence is the
\* parse failure, and the router never routes that pass to resolution.
C29_FallbackHypothesisNotResolved ==
    (computed # <<>> /\ computed[1].fn = "diagnoser_node"
        /\ ~computed[1].out.ok) =>
        /\ Len(computed[1].update.hypotheses) = 1
        /\ computed[1].update.hypotheses[1].likelihood = "low"
        /\ computed[1].update.hypotheses[1].evidence =
              <<"Parsing of diagnostic response failed">>
        /\ computed[1].update.selected_hypothesis =
              <<computed[1].update.hypotheses[1]>>
        /\ computed[1].successors =
              (IF computed[1].attempts < 2 THEN {"info_gatherer"} ELSE {})

C29_UnparseableEndsAfterCap ==
    /\ computed # <<>>
    /\ computed[1].fn = "diagnoser_node"
    /\ ~computed[1].out.ok
    /\ computed[1].attempts = 2
    /\ computed[1].update.hypotheses[1].likelihood = "low"
    /\ computed[1].successors = {}

C31_QuestionFrame ==
    [][(Executes("info_gatherer") /\ state.info_gathering_attempts < 3) =>
        /\ state'.info_gathering_attempts = state.info_gathering_attempts + 1
        /\ state'.needs_user_input
        /\ Len(state'.messages) = Len(state.messages) + 1
        /\ IsPrefix(state.messages, state'.messages)
        /\ state'.messages[Len(state'.messages)].role = "assistant"
        /\ state'.messages[Len(state'.messages)].content \in Questions
        /\ \A k \in {"bug_report", "classification", "related_issues",
                     "rag_results", "hypotheses", "selected_hypothesis",
                     "resolution_plan", "current_phase"} :
              state'[k] = state[k]]_vars

C31_SecondQuestionAsked ==
    /\ last = "info_gatherer"
    /\ exec["info_gatherer"] = 2
    /\ state.info_gathering_attempts = 2
    /\ state.needs_user_input
    /\ state.messages[Len(state.messages)].role = "assistant"
    /\ state.hypotheses # <<>>

\* C32: whenever the resolution stage executes, selected_hypothesis is
\* defined and has likelihood high, so the branch that emits the advisory
\* message with an empty plan is taken in no run of the workflow; run on a
\* state without a selected hypothesis, the stage returns an empty plan, one
\* advisory message and the phase complete.
C32_ResolutionOnlyOnHigh ==
    /\ [](next = {"resolution"} =>
            /\ state.selected_hypothesis # <<>>
            /\ state.selected_hypothesis[1].likelihood = "high")
    /\ [][Executes("resolution") =>
            /\ state.selected_hypothesis # <<>>
            /\ state.selected_hypothesis[1].likelihood = "high"
            /\ state'.messages[Len(state'.messages)].content
                 # <<"Unable to generate a resolution plan.">>]_vars
    /\ [](\A out \in ResolutionOutputs :
            resolution_node(DiagnosticState, out) =
                [resolution_plan |-> <<>>,
                 current_phase |-> "complete",
                 messages |-> <<Msg("assistant",
                                    <<"Unable to generate a resolution plan.">>)>>])

C32_ResolvedHighHypothesis ==
    /\ last = "resolution"
    /\ exec["resolution"] = 1
    /\ state.selected_hypothesis # <<>>
    /\ state.selected_hypothesis[1].likelihood = "high"
    /\ state.resolution_plan # <<>>
    /\ resumes = 1

\* C33: when resolution runs with a selected hypothesis it ends the session
\* with current_phase = complete and its summary as the last entry of the
\* conversation log; when the output of the plan call cannot be parsed,
\* resolution_plan is exactly the fixed plan of two steps, with orders 1, 2.
C33_ResolutionEndsSession ==
    /\ [][(Executes("resolution") /\ state.selected_hypothesis # <<>>) =>
            /\ state'.current_phase = "complete"
            /\ next' = {}
            /\ outcome' = "finished"
            /\ Len(state'.messages) = Len(state.messages) + 1
            /\ IsPrefix(state.messages, state'.messages)
            /\ state'.messages[Len(state'.messages)] =
                  Msg("assistant", <<"# Diagnostic Report">>)]_vars
    /\ []((next = {"resolution"} /\ state.selected_hypothesis # <<>>) =>
            LET plan == resolution_node(state,
                            [ok |-> FALSE, orders |-> <<>>]).resolution_plan
            IN /\ Len(plan) = 2
               /\ plan[1] = [order |-> 1, action |-> "review the error"]
               /\ plan[2] = [order |-> 2, action |-> "search for the error"])

C33_EndedWithFixedPlan ==
    /\ last = "resolution"
    /\ outcome = "finished"
    /\ state.current_phase = "complete"
    /\ Len(state.resolution_plan) = 2
    /\ state.resolution_plan[1].action = "review the error"
    /\ state.resolution_plan[2].order = 2
    /\ state.messages[Len(state.messages)].content = <<"# Diagnostic Report">>

\* C34: in every resolution_plan written into the state the order values of
\* the steps are exactly 1, 2, ..., n in list position order, whatever the
\* plan call returned.
C34_OrdersContiguous ==
    \A i \in DOMAIN state.resolution_plan : state.resolution_plan[i].order = i

\* |A \cap B| / |A \cup B| of two word lists, in 1/600
Jaccard(a, b) ==
    IF Range(a) \cup Range(b) = {} THEN 0
    ELSE (600 * Cardinality(Range(a) \cap Range(b)))
         \div Cardinality(Range(a) \cup Range(b))

\* C35: in compute_github_confidence the title contribution is 0.4 when the
\* report title equals the title of one of the top 3 issues, and otherwise
\* 0.4 times the best Jaccard overlap between the word set of the report
\* title and the word set of each of the top 3 issue titles; the total is in
\* [0, 1] and is 0 when there are no issues.  Scores are in 1/600.
C35_TitleContributionIsJaccard ==
    (computed # <<>> /\ computed[1].fn = "compute_github_confidence") =>
        LET issues == computed[1].issues
            title == computed[1].ticket_title
            n == IF Len(issues) < 3 THEN Len(issues) ELSE 3
        IN /\ computed[1].title_part =
                (IF \E i \in 1..n : issues[i].title = title THEN 240
                 ELSE (4 * MaxOf({0} \cup {Jaccard(title, issues[i].title) :
                                             i \in 1..n})) \div 10)
           /\ computed[1].confidence \in 0..600
           /\ issues = <<>> => computed[1].confidence = 0

\* C36: bug_report is written only by intake and by the resume path:
\* classifier, github_search, rag_search, diagnoser, info_gatherer and
\* resolution leave it unchanged, and a resume changes only its
\* additional_context, so raw_description and the fields extracted by intake
\* are the same in every later state of the session.
C36_ReportWrittenByIntakeAndResume ==
    [][(outcome # "idle" /\ ~Executes("intake")) =>
        /\ \A f \in DOMAIN state.bug_report \ {"additional_context"} :
              state'.bug_report[f] = state.bug_report[f]
        /\ DOMAIN state'.bug_report = DOMAIN state.bug_report
        /\ resumes' = resumes => state'.bug_report = state.bug_report]_vars

C36_ReportKeptThroughTwoResumes ==
    /\ last = "resolution"
    /\ resumes = 2
    /\ state.bug_report.raw_description = <<"report">>
    /\ state.bug_report.title # <<>>
    /\ state.bug_report.additional_context # <<>>

\* C37: the state after the fan-in does not depend on the order in which
\* github_search and rag_search complete: their partial updates assign no
\* common field other than through an append reducer, so merging them in
\* either order yields the same state and raises no conflict.
C37_FanInOrderIndependent ==
    (outcome = "running" /\ next = ParallelNodes /\ StepComplete) =>
        LET github == writes["github_search"][1]
            rag == writes["rag_search"][1]
        IN /\ (DOMAIN github \cap DOMAIN rag \cap DOMAIN state) \subseteq {"messages"}
           /\ Merge(Merge(state, github), rag) = Merge(Merge(state, rag), github)

QuestionEntries(msgs) ==
    {i \in DOMAIN msgs : msgs[i].role = "assistant" /\ msgs[i].content \in Questions}

UserEntries(msgs) == {i \in DOMAIN msgs : msgs[i].role = "user"}

\* C39: in every state of a session info_gathering_attempts is the number of
\* questions the agent has appended to the conversation log and the number
\* of times info_gatherer has run; at every suspension it is 1 or 2 and is
\* the number of suspensions so far; the number of user entries of the log is
\* 1 plus the number of resumes.
C39_AttemptsCountQuestions ==
    (outcome \in {"running", "interrupted", "finished", "error"}
        /\ exec["intake"] >= 1) =>
        /\ state.info_gathering_attempts =
              Cardinality(QuestionEntries(state.messages))
        /\ state.info_gathering_attempts = exec["info_gatherer"]
        /\ interrupt # <<>> =>
              /\ state.info_gathering_attempts \in {1, 2}
              /\ state.info_gathering_attempts = suspensions
        /\ Cardinality(UserEntries(state.messages)) = 1 + resumes

C39_SecondSuspension ==
    /\ outcome = "interrupted"
    /\ interrupt # <<>>
    /\ suspensions = 2
    /\ resumes = 1
    /\ state.info_gathering_attempts = 2
    /\ Len(state.messages) = 4

\* run_agent (start.py): the outer loop consumes the first stream and, on an
\* event with needs_user_input set, prompts once and resumes the thread by a
\* nested stream(Command(resume=...)) loop.  The nested loop only prints its
\* events: it does not test needs_user_input, so a suspension reached inside
\* it is neither prompted nor resumed.
RunAgentPrompt(answer) ==
    /\ resumes = 0
    /\ Resume(answer)

\* run_agent leaves the try block and prints "Diagnosis complete!": the
\* streams have ended, either at END or at a suspension met inside the nested
\* loop; an exception other than KeyboardInterrupt leaves the function too.
RunAgentReturns ==
    /\ outcome = "interrupted" => resumes >= 1
    /\ ProcessExit

RunAgentNext ==
    \/ ConfigError
    \/ \E report \in Reports : Start(report)
    \/ \E n \in GenerationStages : StageRaises(n)
    \/ \E out \in IntakeOutputs : Intake(out)
    \/ \E out \in ClassifierOutputs : Classifier(out)
    \/ \E out \in GithubOutputs : GithubSearch(out)
    \/ \E out \in RagOutputs : RagSearch(out)
    \/ \E resolve \in {"refuse", "github_search", "rag_search"} : FanIn(resolve)
    \/ \E out \in DiagnoserOutputs : Diagnoser(out)
    \/ \E question \in Questions : InfoGatherer(question)
    \/ UserInput
    \/ \E answer \in Answers : RunAgentPrompt(answer)
    \/ \E out \in ResolutionOutputs : Resolution(out)
    \/ RunAgentReturns

RunAgentSpec == Init /\ [][RunAgentNext]_vars

\* C40: in run_agent every suspension of the session, the first and the
\* second, is followed by a prompt and a resume, so whenever run_agent
\* finishes without a keyboard interrupt (its streams ended without an
\* exception) the session has reached END and is not waiting for the user.
C40_RunAgentFinishesAtEnd ==
    [][(outcome \in {"finished", "interrupted"} /\ outcome' = "idle")
         => (/\ outcome = "finished"
             /\ next = {}
             /\ interrupt = <<>>
             /\ ~state.needs_user_input)]_vars

====
